---- MODULE Spec2Model ----
(***************************************************************************)
(* A model of package log (logger.go): the context builders, the field     *)
(* accumulator behind the emit operations, the caller resolver with its    *)
(* one-time initialisation, the response capture wrapper and the request   *)
(* body capture.                                                           *)
(*                                                                         *)
(* A Go string is a sequence of one-character (or one-token) TLA+ strings, *)
(* so that concatenation, slicing and LastIndex are computed as the code   *)
(* computes them.  A value stored in log.Fields (an interface{}) is the    *)
(* pair <<dynamic type, value>>.                                           *)
(***************************************************************************)
EXTENDS Integers, Sequences, FiniteSets, TLC

VARIABLES
    \* the context carrier
    maps,       \* heap of map[string]string objects, by reference 1..Len(maps)
    held,       \* references to the maps the caller created and still holds
    ctxs,       \* derived contexts: parent context, bound key, bound map reference
    reqs,       \* *http.Request objects: the context each one carries
    boundId,    \* per context: the id it was bound with when derived
    boundMap,   \* per context: the contents of its data map when derived
    builtBy,    \* per context: the operation that derived it
    op,         \* the last context operation and its arguments
    pre,        \* the heap as it was right before the last context operation
    \* the response capture wrapper
    rw,         \* LoggingResponseWriter: Status, Body
    sink,       \* calls the wrapped http.ResponseWriter received, in order
    calls,      \* calls made on the wrapper, in order
    ret,        \* what the last Write returned to its caller
    sinkRet,    \* what the wrapped writer returned from the last Write
    \* the emit operations
    fields,     \* lp.fields as handed to entry.WithFields by the last emit
    emit,       \* the last emit operation: its inputs and what it did
    level,      \* the logger's level
    exited,     \* the process was terminated by a Fatal emit
    \* the caller resolver
    thisPackageName, minimumCallerDepth,
    onceDone,   \* callerInitOnce.done
    onceMu,     \* callerInitOnce.m: 0 when free, else the goroutine holding it
    initRuns,   \* how many times the discovery block was entered
    stk,        \* the call stack of the getCaller call under study
    res,        \* what that getCaller call returned
    \* concurrent first use of getCaller
    pc, seenDepth, seenPkg,
    \* the request body
    body,       \* r.Body
    orig,       \* r.Body as it was when the request reached LogRequest
    obs,        \* the bytes the downstream handler has read
    outcome,    \* how the handler's reading ended
    logged      \* LogRequest was called on the request

ctxVars == <<maps, held, ctxs, reqs, boundId, boundMap, builtBy, op, pre>>
rwVars == <<rw, sink, calls, ret, sinkRet>>
emitVars == <<fields, emit, level, exited>>
initVars == <<thisPackageName, minimumCallerDepth, onceDone, onceMu, initRuns>>
callerVars == <<stk, res>>
onceVars == <<pc, seenDepth, seenPkg>>
bodyVars == <<body, orig, obs, outcome, logged>>
vars == <<ctxVars, rwVars, emitVars, initVars, callerVars, onceVars, bodyVars>>

----------------------------------------------------------------------------
(* Bounds of the model *)

MaxCtx == 3         \* derived contexts
MaxData == 1        \* maps the caller creates

(* Go values *)

Nil == 0
EmptyMap == [k \in {} |-> <<>>]
Str(s) == <<"string", s>>
IntV(n) == <<"int", n>>
Min(a, b) == IF a < b THEN a ELSE b

\* m[k] = v on a Go map
MapSet(m, k, v) == [x \in DOMAIN m \cup {k} |-> IF x = k THEN v ELSE m[x]]

\* m[k] read from a Go map: the zero value when the key is absent
MapGet(m, k) == IF k \in DOMAIN m THEN m[k] ELSE <<>>

ContextDataMapKey == "value"
ContextIdKey == "context_id"
PathKey == "url_path"
RequestKey == "request"
ResponseKey == "response"
ResponseCodeKey == "response_code"

----------------------------------------------------------------------------
(* The context carrier *)

Ids == {<<"a">>, <<"b">>}
ExtraKey == "k"
\* what a caller's own map may hold when it is created
CallerMaps == {ExtraKey :> <<"v">>, (ExtraKey :> <<"v">>) @@ (ContextIdKey :> <<"z">>)}

Background == 0

\* context.WithValue(parent, key, val): val is a reference into the heap
WithValue(parent, key, ref) == [parent |-> parent, key |-> key, data |-> ref]

\* ctx.Value(key): the nearest binding walking toward the root, Nil when none
RECURSIVE Value(_, _, _)
Value(cs, c, key) ==
    IF c = Background THEN Nil
    ELSE IF cs[c].key = key THEN cs[c].data
    ELSE Value(cs, cs[c].parent, key)

\* the contents of the data map a context carries, on a given heap
DataOf(heap, cs, c) ==
    LET ref == Value(cs, c, ContextDataMapKey) IN
    IF ref = Nil THEN EmptyMap ELSE heap[ref]

\* ctx.Value(ContextDataMapKey) as the emit operations read it: ok is FALSE when
\* the context carries no data map
CtxValue(heap, cs, c) ==
    LET ref == Value(cs, c, ContextDataMapKey) IN
    IF ref = Nil THEN [ok |-> FALSE, data |-> EmptyMap]
    ELSE [ok |-> TRUE, data |-> heap[ref]]

\* getContextData(ctx): ok is FALSE for the nil result (no data map in the context)
getContextData(heap, cs, c) ==
    LET ref == Value(cs, c, ContextDataMapKey) IN
    IF ref = Nil THEN [ok |-> FALSE, contextId |-> <<>>]
    ELSE [ok |-> TRUE, contextId |-> MapGet(heap[ref], ContextIdKey)]

CtxRoom == Len(ctxs) < MaxCtx

\* the bookkeeping every context builder shares: the new context, what it was
\* bound with, and the operation's record
Derived(name, parent, ref, heap, id, r, data) ==
    /\ ctxs' = Append(ctxs, WithValue(parent, ContextDataMapKey, ref))
    /\ maps' = heap
    /\ boundId' = Append(boundId, id)
    /\ boundMap' = Append(boundMap, heap[ref])
    /\ builtBy' = Append(builtBy, name)
    /\ op' = [name |-> name, req |-> r, data |-> data, id |-> id,
              ctx |-> Len(ctxs) + 1]
    /\ pre' = maps

BuildContextDataAndSetValue(contextId) ==
    /\ CtxRoom
    /\ LET data == MapSet(EmptyMap, ContextIdKey, contextId)
           heap == Append(maps, data)
       IN Derived("Build", Background, Len(heap), heap, contextId, Nil, Nil)
    /\ UNCHANGED <<held, reqs>>

\* a faulty variant of AppendContextDataAndSetValue: the new map starts as a copy of
\* the map the request's context carries
AppendContextDataAndSetValueCopy(r, contextId) ==
    /\ CtxRoom
    /\ LET data == MapSet(DataOf(maps, ctxs, reqs[r]), ContextIdKey, contextId)
           heap == Append(maps, data)
       IN Derived("Append", reqs[r], Len(heap), heap, contextId, r, Nil)
    /\ reqs' = Append(reqs, Len(ctxs) + 1)
    /\ UNCHANGED held

AppendContextDataAndSetValue(r, contextId) ==
    /\ CtxRoom
    /\ LET data == MapSet(EmptyMap, ContextIdKey, contextId)
           heap == Append(maps, data)
       IN Derived("Append", reqs[r], Len(heap), heap, contextId, r, Nil)
    /\ reqs' = Append(reqs, Len(ctxs) + 1)
    /\ UNCHANGED held

\* data is a reference the caller supplies, or Nil
SetContextDataAndSetValue(r, data, contextId) ==
    /\ CtxRoom
    /\ LET heap0 == IF data = Nil THEN Append(maps, EmptyMap) ELSE maps
           ref == IF data = Nil THEN Len(heap0) ELSE data
           heap == [heap0 EXCEPT ![ref] = MapSet(@, ContextIdKey, contextId)]
       IN Derived("Set", reqs[r], ref, heap, contextId, r, data)
    /\ reqs' = Append(reqs, Len(ctxs) + 1)
    /\ UNCHANGED held

\* the caller makes a map of its own
NewData(m) ==
    /\ Cardinality(held) < MaxData
    /\ maps' = Append(maps, m)
    /\ held' = held \cup {Len(maps) + 1}
    /\ op' = [name |-> "NewData", req |-> Nil, data |-> Len(maps) + 1, id |-> <<>>,
              ctx |-> Nil]
    /\ pre' = maps
    /\ UNCHANGED <<ctxs, reqs, boundId, boundMap, builtBy>>

\* the caller writes to a map it still holds
CallerWrite(d, k, v) ==
    /\ d \in held
    /\ MapGet(maps[d], k) # v
    /\ maps' = [maps EXCEPT ![d] = MapSet(@, k, v)]
    /\ op' = [name |-> "CallerWrite", req |-> Nil, data |-> d, id |-> <<>>, ctx |-> Nil]
    /\ pre' = maps
    /\ UNCHANGED <<held, ctxs, reqs, boundId, boundMap, builtBy>>

InitCtx ==
    /\ maps = <<>>
    /\ held = {}
    /\ ctxs = <<>>
    /\ reqs = <<Background>>
    /\ boundId = <<>>
    /\ boundMap = <<>>
    /\ builtBy = <<>>
    /\ op = [name |-> "none", req |-> Nil, data |-> Nil, id |-> <<>>, ctx |-> Nil]
    /\ pre = <<>>

----------------------------------------------------------------------------
(* The caller resolver *)

maximumCallerDepth == 25
knownLogFrames == 3

\* logrus levels, most severe first
FatalLevel == 1
ErrorLevel == 2
WarnLevel == 3
InfoLevel == 4
DebugLevel == 5
Levels == {FatalLevel, ErrorLevel, WarnLevel, InfoLevel, DebugLevel}

\* a runtime.Frame; Pkg is not a field of it: it records the package the function
\* was declared in, for the properties to refer to
Frame(pkg, fn, file, line) == [Function |-> fn, File |-> file, Line |-> line, Pkg |-> pkg]
ZeroFrame == Frame(<<>>, <<>>, <<>>, 0)
NoFrame == [found |-> FALSE, frame |-> ZeroFrame]

\* the import path of this package, and qualified function names
LogPkg == <<"github", ".", "com", "/", "muhammad-fakhri", "/", "log">>
LogFile == <<"logger", ".", "go">>
LogFn(name, line) == Frame(LogPkg, LogPkg \o <<".">> \o name, LogFile, line)
ExtFn(pkg, name, line) == Frame(pkg, pkg \o <<".">> \o name, <<"app", ".", "go">>, line)

\* strings.LastIndex(f, c) + 1: the 1-based place of the last c, 0 when there is none
LastIndex(f, c) ==
    LET at == {i \in 1..Len(f) : f[i] = c} IN
    IF at = {} THEN 0 ELSE CHOOSE i \in at : \A j \in at : j <= i

RECURSIVE getPackageName(_)
getPackageName(f) ==
    LET lastPeriod == LastIndex(f, ".")
        lastSlash == LastIndex(f, "/")
    IN IF lastPeriod > lastSlash
       THEN getPackageName(SubSeq(f, 1, lastPeriod - 1))
       ELSE f

\* runtime.Callers(skip, pcs) with len(pcs) = size, on a stack whose first frame is
\* runtime.Callers itself (skip 0), followed by runtime.CallersFrames
Callers(stack, skip, size) == SubSeq(stack, skip + 1, Min(Len(stack), skip + size))

\* frames.Next() at the i-th frame: more tells whether another frame follows
FramesNext(frames, i) ==
    [frame |-> IF i <= Len(frames) THEN frames[i] ELSE ZeroFrame,
     more |-> i < Len(frames)]

\* the loop of getCaller: for f, again := frames.Next(); again; f, again = frames.Next()
RECURSIVE Walk(_, _, _)
Walk(frames, i, pkgName) ==
    LET n == FramesNext(frames, i) IN
    IF ~n.more THEN NoFrame
    ELSE IF getPackageName(n.frame.Function) # pkgName
         THEN [found |-> TRUE, frame |-> n.frame]
         ELSE Walk(frames, i + 1, pkgName)

\* the stack inside the function literal that callerInitOnce.Do runs, given the
\* stack of the getCaller call (runtime.Callers on top)
OnceStack(stack) ==
    << ExtFn(<<"runtime">>, <<"Callers">>, 1),
       LogFn(<<"getCaller", ".", "func1">>, 346),
       ExtFn(<<"sync">>, <<"(*Once)", ".", "doSlow">>, 1),
       ExtFn(<<"sync">>, <<"(*Once)", ".", "Do">>, 1) >> \o Tail(stack)

\* the discovery block: the package name of the first frame above runtime.Callers
Discover(stack) ==
    LET frames == Callers(OnceStack(stack), 1, 2) IN
    getPackageName(FramesNext(frames, 1).frame.Function)

\* getCaller after callerInitOnce.Do has returned, with the values it then reads
getCaller(stack, pkgName, minDepth) ==
    Walk(Callers(stack, minDepth, maximumCallerDepth), 1, pkgName)

\* callerInitOnce.Do(...) run by a single goroutine, start to end
OnceDo(stack) ==
    IF onceDone
    THEN UNCHANGED initVars
    ELSE /\ thisPackageName' = Discover(stack)
         /\ minimumCallerDepth' = knownLogFrames
         /\ onceDone' = TRUE
         /\ initRuns' = initRuns + 1
         /\ UNCHANGED onceMu

\* the values getCaller reads once callerInitOnce.Do has returned
PkgAfterOnce(stack) == IF onceDone THEN thisPackageName ELSE Discover(stack)
DepthAfterOnce == IF onceDone THEN minimumCallerDepth ELSE knownLogFrames

InitOnce ==
    /\ thisPackageName = <<>>
    /\ minimumCallerDepth = 1
    /\ onceDone = FALSE
    /\ onceMu = 0
    /\ initRuns = 0

----------------------------------------------------------------------------
(* The field accumulator and the emit operations *)

\* the frames above a Log method: the goroutine's stack below the logging package
Handler == ExtFn(<<"main">>, <<"handler">>, 10)
Service == ExtFn(<<"example", ".", "com", "/", "app", "/", "svc">>, <<"(*S)", ".", "Do">>, 20)
Goexit == ExtFn(<<"runtime">>, <<"goexit">>, 30)
UserStacks == { <<Service, Handler, Goexit>>, <<Goexit>> }

\* the stack of the getCaller call made by the emit operation name
EmitStack(name, user) ==
    << ExtFn(<<"runtime">>, <<"Callers">>, 1),
       LogFn(<<"getCaller">>, 357),
       LogFn(<<"(*LogParams)", ".", "setCallStackTrace">>, 270),
       LogFn(<<"(*Log)", ".", name>>, 1) >> \o user

\* what ctx.Value(ContextDataMapKey) may be for an emit: nothing, or a data map
NoData == [ok |-> FALSE, data |-> EmptyMap]
CtxDatas ==
    {NoData} \cup
    {[ok |-> TRUE, data |-> m] : m \in
        { EmptyMap,
          ContextIdKey :> <<"a">>,
          (ContextIdKey :> <<"a">>) @@ ("file" :> <<"b">>),
          (ContextIdKey :> <<"b">>) @@ (RequestKey :> <<"a">>) @@ ("func" :> <<"b">>) }}

\* fmt.Sprintf("%s:%d", caller.File, caller.Line)
SprintFileLine(file, line) == file \o <<":", ToString(line)>>

\* setCaller(caller): caller is the result of getCaller
setCaller(f, caller) ==
    IF ~caller.found THEN f
    ELSE LET funcVal == caller.frame.Function
             fileVal == SprintFileLine(caller.frame.File, caller.frame.Line)
             f1 == IF funcVal # <<>> THEN MapSet(f, "func", Str(funcVal)) ELSE f
         IN IF fileVal # <<>> THEN MapSet(f1, "file", Str(fileVal)) ELSE f1

\* a faulty variant of setCallStackTrace: the resolver runs from warn level on
setCallStackTraceFromWarn(f, logLevel, stack) ==
    IF logLevel <= WarnLevel
    THEN LET caller == getCaller(stack, PkgAfterOnce(stack), DepthAfterOnce) IN
         [fields |-> setCaller(f, caller), called |-> TRUE, caller |-> caller]
    ELSE [fields |-> f, called |-> FALSE, caller |-> NoFrame]

\* setCallStackTrace(logLevel): the fields after it, whether it called getCaller,
\* and what getCaller returned
setCallStackTrace(f, logLevel, stack) ==
    IF logLevel <= ErrorLevel
    THEN LET caller == getCaller(stack, PkgAfterOnce(stack), DepthAfterOnce) IN
         [fields |-> setCaller(f, caller), called |-> TRUE, caller |-> caller]
    ELSE [fields |-> f, called |-> FALSE, caller |-> NoFrame]

\* a faulty variant of injectContextDataMap: a key already in the fields is kept
injectContextDataMapKeep(f, d) ==
    IF d.ok
    THEN [k \in DOMAIN f \cup DOMAIN d.data |->
             IF k \in DOMAIN f THEN f[k] ELSE Str(d.data[k])]
    ELSE f

\* injectContextDataMap(ctx): d is ctx.Value(ContextDataMapKey)
injectContextDataMap(f, d) ==
    IF d.ok
    THEN [k \in DOMAIN f \cup DOMAIN d.data |->
             IF k \in DOMAIN d.data THEN Str(d.data[k]) ELSE f[k]]
    ELSE f

\* for key, value := range dataMap { lp.fields[key] = value }
injectDataMap(f, dataMap) ==
    [k \in DOMAIN f \cup DOMAIN dataMap |->
        IF k \in DOMAIN dataMap THEN dataMap[k] ELSE f[k]]

injectURLPath(f, host, path) == MapSet(f, PathKey, Str(host \o path))

\* the effect of a finished emit on the logger and the process
Emitted(name, logLevel, stack, st, f, ctxd, specific) ==
    /\ ~exited
    /\ fields' = f
    /\ emit' = [name |-> name, level |-> logLevel, called |-> st.called,
                caller |-> st.caller, callerFields |-> st.fields, ctx |-> ctxd,
                specific |-> specific, written |-> logLevel <= level]
    /\ exited' = (logLevel = FatalLevel)
    /\ IF st.called THEN OnceDo(stack) ELSE UNCHANGED initVars
    /\ UNCHANGED level

\* the ten leveled operations: fields from the caller, then from the context
Leveled(name, logLevel, ctxd, user) ==
    LET stack == EmitStack(name, user)
        st == setCallStackTrace(EmptyMap, logLevel, stack)
        f == injectContextDataMap(st.fields, ctxd)
    IN Emitted(name, logLevel, stack, st, f, ctxd, EmptyMap)

Infof(ctxd, user) == Leveled("Infof", InfoLevel, ctxd, user)
Warnf(ctxd, user) == Leveled("Warnf", WarnLevel, ctxd, user)
Errorf(ctxd, user) == Leveled("Errorf", ErrorLevel, ctxd, user)
Debugf(ctxd, user) == Leveled("Debugf", DebugLevel, ctxd, user)
Fatalf(ctxd, user) == Leveled("Fatalf", FatalLevel, ctxd, user)
Info(ctxd, user) == Leveled("Info", InfoLevel, ctxd, user)
Warn(ctxd, user) == Leveled("Warn", WarnLevel, ctxd, user)
Error(ctxd, user) == Leveled("Error", ErrorLevel, ctxd, user)
Debug(ctxd, user) == Leveled("Debug", DebugLevel, ctxd, user)
Fatal(ctxd, user) == Leveled("Fatal", FatalLevel, ctxd, user)

\* the dataMap argument of InfoMap: nil, or a map[string]interface{}
NilDataMap == [ok |-> FALSE, data |-> EmptyMap]
DataMaps ==
    {NilDataMap} \cup
    {[ok |-> TRUE, data |-> m] : m \in
        { EmptyMap,
          "m" :> IntV(7),
          (ContextIdKey :> Str(<<"c">>)) @@ ("file" :> IntV(7)) }}

InfoMap(ctxd, dataMap, user) ==
    LET stack == EmitStack("InfoMap", user)
        st == setCallStackTrace(EmptyMap, InfoLevel, stack)
        f1 == injectContextDataMap(st.fields, ctxd)
        f == IF dataMap.ok THEN injectDataMap(f1, dataMap.data) ELSE f1
    IN Emitted("InfoMap", InfoLevel, stack, st, f, ctxd, dataMap.data)

SetLevel(l) ==
    /\ ~exited
    /\ level # l
    /\ level' = l
    /\ UNCHANGED <<fields, emit, exited>>

InitEmit ==
    /\ fields = EmptyMap
    /\ emit = [name |-> "none", level |-> InfoLevel, called |-> FALSE, caller |-> NoFrame,
               callerFields |-> EmptyMap, ctx |-> NoData, specific |-> EmptyMap,
               written |-> FALSE]
    /\ level = InfoLevel
    /\ exited = FALSE

----------------------------------------------------------------------------
(* The request body and LogRequest *)

MaxBody == 2        \* bytes of a request body

Bytes == {"x", "y"}
BodyDatas == UNION {[1..n -> Bytes] : n \in 0..MaxBody}

\* an io.ReadCloser: it delivers data from pos on, then ends cleanly, or with a
\* read error when fails
Stream(data, pos, fails) == [data |-> data, pos |-> pos, fails |-> fails]
Streams == {s \in {Stream(d, p, f) : d \in BodyDatas, p \in 0..MaxBody, f \in BOOLEAN} :
                s.pos <= Len(s.data)}
NoBody == Stream(<<>>, 0, FALSE)

\* ioutil.ReadAll(b): everything up to the end or the first error
ReadAll(b) == [buf |-> SubSeq(b.data, b.pos + 1, Len(b.data)), err |-> b.fails]

\* ioutil.NopCloser(bytes.NewBuffer(buf))
NewBuffer(buf) == Stream(buf, 0, FALSE)

\* fmt.Sprintf("%q", r.Body) on the new body: the struct's one field, the buffer,
\* printed through its String method and quoted
Sprintq(b) == <<"{", "\"">> \o SubSeq(b.data, b.pos + 1, Len(b.data)) \o <<"\"", "}">>

\* a faulty variant of injectRequestBody: the body is left drained, not replaced
injectRequestBodyDrained(f, b) ==
    LET buf == ReadAll(b).buf
        drained == [b EXCEPT !.pos = Len(b.data), !.fails = FALSE]
    IN [fields |-> MapSet(f, RequestKey, Str(Sprintq(NewBuffer(buf)))), body |-> drained]

\* injectRequestBody(ctx, r): the fields after it and the request's new body
injectRequestBody(f, b) ==
    LET buf == ReadAll(b).buf
        nb == NewBuffer(buf)
    IN [fields |-> MapSet(f, RequestKey, Str(Sprintq(nb))), body |-> nb]

Hosts == {<<"h">>}
Paths == {<<"/", "p">>, <<>>}

\* LogRequest(ctx, r) on the request whose body is body; the handler's reading
\* is observed from here on
LogRequest(ctxd, host, path, user) ==
    LET stack == EmitStack("LogRequest", user)
        st == setCallStackTrace(EmptyMap, InfoLevel, stack)
        f1 == injectContextDataMap(st.fields, ctxd)
        f2 == injectURLPath(f1, host, path)
        rb == injectRequestBody(f2, body)
        specific == (PathKey :> f2[PathKey]) @@ (RequestKey :> rb.fields[RequestKey])
    IN /\ Emitted("LogRequest", InfoLevel, stack, st, rb.fields, ctxd, specific)
       /\ body' = rb.body
       /\ orig' = body
       /\ logged' = TRUE
       /\ obs' = <<>>
       /\ outcome' = "none"

\* the downstream handler reads one more byte of r.Body, or reaches its end
HandlerRead ==
    /\ outcome = "none"
    /\ IF body.pos < Len(body.data)
       THEN /\ obs' = Append(obs, body.data[body.pos + 1])
            /\ body' = [body EXCEPT !.pos = @ + 1]
            /\ UNCHANGED outcome
       ELSE /\ outcome' = IF body.fails THEN "error" ELSE "EOF"
            /\ UNCHANGED <<obs, body>>
    /\ UNCHANGED <<orig, logged>>

InitBodyOf(b) ==
    /\ body = b
    /\ orig = b
    /\ obs = <<>>
    /\ outcome = "none"
    /\ logged = FALSE

----------------------------------------------------------------------------
(* The response capture wrapper and LogResponse *)

MaxCalls == 3       \* calls made on one wrapper
MaxChunk == 1       \* bytes of one Write

StatusCodes == {200, 500}
Chunks == UNION {[1..n -> Bytes] : n \in 0..MaxChunk}
\* what the wrapped writer may return from Write(body)
WriteReturns(b) == {[n |-> n, err |-> e] : n \in 0..Len(b), e \in BOOLEAN}

WriteHeader(code) ==
    /\ Len(calls) < MaxCalls
    /\ rw' = [rw EXCEPT !.Status = code]
    /\ sink' = Append(sink, <<"WriteHeader", code>>)
    /\ calls' = Append(calls, <<"WriteHeader", code>>)
    /\ UNCHANGED <<ret, sinkRet>>

\* a faulty variant of Write: the captured text is forwarded and the full length
\* reported
WriteCaptured(b, r) ==
    /\ Len(calls) < MaxCalls
    /\ rw' = [rw EXCEPT !.Body = rw.Body \o b]
    /\ sink' = Append(sink, <<"Write", rw.Body \o b>>)
    /\ calls' = Append(calls, <<"Write", b>>)
    /\ sinkRet' = r
    /\ ret' = [n |-> Len(b), err |-> FALSE]

\* Write(body); r is what the wrapped writer returns from it
Write(b, r) ==
    /\ Len(calls) < MaxCalls
    /\ rw' = [rw EXCEPT !.Body = b]
    /\ sink' = Append(sink, <<"Write", b>>)
    /\ calls' = Append(calls, <<"Write", b>>)
    /\ sinkRet' = r
    /\ ret' = r

injectResponseBody(f, w) ==
    MapSet(MapSet(f, ResponseCodeKey, IntV(w.Status)), ResponseKey, Str(w.Body))

LogResponse(ctxd, user) ==
    LET stack == EmitStack("LogResponse", user)
        st == setCallStackTrace(EmptyMap, InfoLevel, stack)
        f1 == injectContextDataMap(st.fields, ctxd)
        f == injectResponseBody(f1, rw)
        specific == (ResponseCodeKey :> f[ResponseCodeKey]) @@ (ResponseKey :> f[ResponseKey])
    IN Emitted("LogResponse", InfoLevel, stack, st, f, ctxd, specific)

\* CreateResponseWrapper(rw)
InitRW ==
    /\ rw = [Status |-> 0, Body |-> <<>>]
    /\ sink = <<>>
    /\ calls = <<>>
    /\ ret = [n |-> 0, err |-> FALSE]
    /\ sinkRet = [n |-> 0, err |-> FALSE]

----------------------------------------------------------------------------
(* One getCaller call on a call stack *)

MaxLogRun == 26     \* frames of this package above getCaller's caller
MaxExtRun == 2      \* frames of other packages below them

\* frames of the stack, told apart by their line numbers
LogRun(n) == [i \in 1..n |-> LogFn(<<"(*Log)", ".", "Error">>, 100 + i)]
\* the frames below them; the bottom frame of a goroutine is runtime.goexit
ExtRun(n) ==
    [i \in 1..n |-> IF i = n THEN Goexit
                    ELSE ExtFn(<<"example", ".", "com", "/", "app">>, <<"handler">>, 200 + i)]

\* runtime.Callers, getCaller and getCaller's caller, then a frames of this
\* package (the Log method that was called, and whatever of this package called
\* it), then b frames of other packages
StackOf(a, b) ==
    << ExtFn(<<"runtime">>, <<"Callers">>, 1),
       LogFn(<<"getCaller">>, 357),
       LogFn(<<"(*LogParams)", ".", "setCallStackTrace">>, 270) >>
    \o LogRun(a) \o ExtRun(b)
CallerStacks == {StackOf(a, b) : a \in 1..MaxLogRun, b \in 1..MaxExtRun}

NotCalled == [done |-> FALSE, found |-> FALSE, frame |-> ZeroFrame]

\* getCaller() called with stk as the call stack
CallGetCaller ==
    /\ ~res.done
    /\ LET caller == getCaller(stk, PkgAfterOnce(stk), DepthAfterOnce) IN
       res' = [done |-> TRUE, found |-> caller.found, frame |-> caller.frame]
    /\ OnceDo(stk)
    /\ UNCHANGED stk

\* the call has returned; the next one is made on another stack
NextCall(s) ==
    /\ res.done
    /\ stk' = s
    /\ res' = NotCalled
    /\ UNCHANGED initVars

InitCallerOf(s) ==
    /\ stk = s
    /\ res = NotCalled

----------------------------------------------------------------------------
(* Concurrent first use of getCaller: callerInitOnce is a sync.Once *)

NumGoroutines == 3

Goroutines == 1..NumGoroutines
GoStack == EmitStack("Error", <<Handler, Goexit>>)
At(g, l) == pc[g] = l
Goto(g, l) == pc' = [pc EXCEPT ![g] = l]

\* a goroutine enters getCaller
Enter(g) ==
    /\ pc[g] \in {"idle", "done"}
    /\ Goto(g, "load")
    /\ UNCHANGED <<initVars, seenDepth, seenPkg>>

\* Once.Do: if atomic.LoadUint32(&o.done) == 0 { o.doSlow(f) }
OnceLoad(g) ==
    /\ At(g, "load")
    /\ Goto(g, IF onceDone THEN "callers" ELSE "lock")
    /\ UNCHANGED <<initVars, seenDepth, seenPkg>>

\* a faulty variant of OnceLock: the mutex is taken whether it is free or not
OnceLockAnyway(g) ==
    /\ At(g, "lock")
    /\ onceMu' = g
    /\ Goto(g, "check")
    /\ UNCHANGED <<thisPackageName, minimumCallerDepth, onceDone, initRuns,
                   seenDepth, seenPkg>>

\* doSlow: o.m.Lock()
OnceLock(g) ==
    /\ At(g, "lock")
    /\ onceMu = 0
    /\ onceMu' = g
    /\ Goto(g, "check")
    /\ UNCHANGED <<thisPackageName, minimumCallerDepth, onceDone, initRuns,
                   seenDepth, seenPkg>>

\* doSlow: if o.done == 0 { defer atomic.StoreUint32(&o.done, 1); f() }
OnceCheck(g) ==
    /\ At(g, "check")
    /\ IF onceDone
       THEN Goto(g, "unlock") /\ UNCHANGED initRuns
       ELSE Goto(g, "discover") /\ initRuns' = initRuns + 1
    /\ UNCHANGED <<thisPackageName, minimumCallerDepth, onceDone, onceMu,
                   seenDepth, seenPkg>>

\* f: thisPackageName = getPackageName(frame.Function)
SetPackageName(g) ==
    /\ At(g, "discover")
    /\ thisPackageName' = Discover(GoStack)
    /\ Goto(g, "depth")
    /\ UNCHANGED <<minimumCallerDepth, onceDone, onceMu, initRuns, seenDepth, seenPkg>>

\* f: minimumCallerDepth = knownLogFrames
SetDepth(g) ==
    /\ At(g, "depth")
    /\ minimumCallerDepth' = knownLogFrames
    /\ Goto(g, "store")
    /\ UNCHANGED <<thisPackageName, onceDone, onceMu, initRuns, seenDepth, seenPkg>>

\* the deferred atomic.StoreUint32(&o.done, 1)
OnceStore(g) ==
    /\ At(g, "store")
    /\ onceDone' = TRUE
    /\ Goto(g, "unlock")
    /\ UNCHANGED <<thisPackageName, minimumCallerDepth, onceMu, initRuns,
                   seenDepth, seenPkg>>

\* the deferred o.m.Unlock()
OnceUnlock(g) ==
    /\ At(g, "unlock")
    /\ onceMu' = 0
    /\ Goto(g, "callers")
    /\ UNCHANGED <<thisPackageName, minimumCallerDepth, onceDone, initRuns,
                   seenDepth, seenPkg>>

\* the walk starts: runtime.Callers(minimumCallerDepth, pcs)
ReadDepth(g) ==
    /\ At(g, "callers")
    /\ seenDepth' = [seenDepth EXCEPT ![g] = minimumCallerDepth]
    /\ Goto(g, "walk")
    /\ UNCHANGED <<initVars, seenPkg>>

\* the walk compares with thisPackageName, and getCaller returns
ReadPackageName(g) ==
    /\ At(g, "walk")
    /\ seenPkg' = [seenPkg EXCEPT ![g] = thisPackageName]
    /\ Goto(g, "done")
    /\ UNCHANGED <<initVars, seenDepth>>

InitGoroutines ==
    /\ pc = [g \in Goroutines |-> "idle"]
    /\ seenDepth = [g \in Goroutines |-> 0]
    /\ seenPkg = [g \in Goroutines |-> <<>>]

----------------------------------------------------------------------------
(* The specifications *)

InitAll ==
    /\ InitCtx /\ InitRW /\ InitEmit /\ InitOnce
    /\ InitCallerOf(<<>>) /\ InitGoroutines /\ InitBodyOf(NoBody)

notCtx == <<rwVars, emitVars, initVars, callerVars, onceVars, bodyVars>>
notEmit == <<ctxVars, rwVars, callerVars, onceVars, bodyVars>>

\* the context builders alone
NextCtx ==
    \/ (\E id \in Ids : BuildContextDataAndSetValue(id)) /\ UNCHANGED notCtx
    \/ (\E r \in 1..Len(reqs), id \in Ids : AppendContextDataAndSetValue(r, id))
          /\ UNCHANGED notCtx
    \/ (\E r \in 1..Len(reqs), d \in held \cup {Nil}, id \in Ids :
            SetContextDataAndSetValue(r, d, id)) /\ UNCHANGED notCtx
    \/ (\E m \in CallerMaps : NewData(m)) /\ UNCHANGED notCtx

SpecCtx == InitAll /\ [][NextCtx]_vars

\* the context builders, and a caller that writes to the maps it handed over
NextCtxMut ==
    \/ NextCtx
    \/ (\E d \in held, k \in {ContextIdKey, ExtraKey}, v \in {<<"a">>, <<"w">>} :
            CallerWrite(d, k, v)) /\ UNCHANGED notCtx

SpecCtxMut == InitAll /\ [][NextCtxMut]_vars

\* the emit operations of one logger
NextEmit ==
    \/ (\E ctxd \in CtxDatas, user \in UserStacks : Infof(ctxd, user)) /\ UNCHANGED notEmit
    \/ (\E ctxd \in CtxDatas, user \in UserStacks : Warnf(ctxd, user)) /\ UNCHANGED notEmit
    \/ (\E ctxd \in CtxDatas, user \in UserStacks : Errorf(ctxd, user)) /\ UNCHANGED notEmit
    \/ (\E ctxd \in CtxDatas, user \in UserStacks : Debugf(ctxd, user)) /\ UNCHANGED notEmit
    \/ (\E ctxd \in CtxDatas, user \in UserStacks : Fatalf(ctxd, user)) /\ UNCHANGED notEmit
    \/ (\E ctxd \in CtxDatas, user \in UserStacks : Info(ctxd, user)) /\ UNCHANGED notEmit
    \/ (\E ctxd \in CtxDatas, user \in UserStacks : Warn(ctxd, user)) /\ UNCHANGED notEmit
    \/ (\E ctxd \in CtxDatas, user \in UserStacks : Error(ctxd, user)) /\ UNCHANGED notEmit
    \/ (\E ctxd \in CtxDatas, user \in UserStacks : Debug(ctxd, user)) /\ UNCHANGED notEmit
    \/ (\E ctxd \in CtxDatas, user \in UserStacks : Fatal(ctxd, user)) /\ UNCHANGED notEmit
    \/ (\E ctxd \in CtxDatas, dataMap \in DataMaps, user \in UserStacks :
            InfoMap(ctxd, dataMap, user)) /\ UNCHANGED notEmit
    \/ (\E ctxd \in CtxDatas, user \in UserStacks : LogResponse(ctxd, user))
          /\ UNCHANGED notEmit
    \/ (\E ctxd \in CtxDatas, user \in UserStacks, host \in Hosts, path \in Paths :
            LogRequest(ctxd, host, path, user))
          /\ UNCHANGED <<ctxVars, rwVars, callerVars, onceVars>>
    \/ (\E l \in Levels : SetLevel(l)) /\ UNCHANGED <<notEmit, initVars>>

SpecEmit == InitAll /\ [][NextEmit]_vars

\* the contexts the response and request specifications log with
SomeCtxDatas == {NoData, [ok |-> TRUE, data |-> ContextIdKey :> <<"a">>]}

\* one response wrapper and the LogResponse calls that read it
NextRW ==
    \/ (\E code \in StatusCodes : WriteHeader(code))
          /\ UNCHANGED <<ctxVars, emitVars, initVars, callerVars, onceVars, bodyVars>>
    \/ (\E b \in Chunks : \E r \in WriteReturns(b) : Write(b, r))
          /\ UNCHANGED <<ctxVars, emitVars, initVars, callerVars, onceVars, bodyVars>>
    \/ (\E ctxd \in SomeCtxDatas : LogResponse(ctxd, <<Handler, Goexit>>))
          /\ UNCHANGED notEmit

SpecRW == InitAll /\ [][NextRW]_vars

\* one request: LogRequest, the handler that reads the body, and SetLevel
InitBody ==
    /\ InitCtx /\ InitRW /\ InitEmit /\ InitOnce
    /\ InitCallerOf(<<>>) /\ InitGoroutines
    /\ \E b \in Streams : InitBodyOf(b)

NextBody ==
    \/ (\E ctxd \in SomeCtxDatas, host \in Hosts, path \in Paths :
            LogRequest(ctxd, host, path, <<Handler, Goexit>>))
          /\ UNCHANGED <<ctxVars, rwVars, callerVars, onceVars>>
    \/ HandlerRead
          /\ UNCHANGED <<ctxVars, rwVars, emitVars, initVars, callerVars, onceVars>>
    \/ (\E l \in {ErrorLevel, InfoLevel} : SetLevel(l))
          /\ UNCHANGED <<notEmit, initVars>>

SpecBody == InitBody /\ [][NextBody]_vars

\* getCaller called on one stack after another
InitCaller ==
    /\ InitCtx /\ InitRW /\ InitEmit /\ InitOnce
    /\ InitGoroutines /\ InitBodyOf(NoBody)
    /\ \E s \in CallerStacks : InitCallerOf(s)

NextCaller ==
    \/ CallGetCaller /\ UNCHANGED <<ctxVars, rwVars, emitVars, onceVars, bodyVars>>
    \/ (\E s \in CallerStacks : NextCall(s))
          /\ UNCHANGED <<ctxVars, rwVars, emitVars, onceVars, bodyVars>>

SpecCaller == InitCaller /\ [][NextCaller]_vars

\* goroutines that call getCaller concurrently
notOnce == <<ctxVars, rwVars, emitVars, callerVars, bodyVars>>

NextOnce ==
    \/ (\E g \in Goroutines : Enter(g)) /\ UNCHANGED notOnce
    \/ (\E g \in Goroutines : OnceLoad(g)) /\ UNCHANGED notOnce
    \/ (\E g \in Goroutines : OnceLock(g)) /\ UNCHANGED notOnce
    \/ (\E g \in Goroutines : OnceCheck(g)) /\ UNCHANGED notOnce
    \/ (\E g \in Goroutines : SetPackageName(g)) /\ UNCHANGED notOnce
    \/ (\E g \in Goroutines : SetDepth(g)) /\ UNCHANGED notOnce
    \/ (\E g \in Goroutines : OnceStore(g)) /\ UNCHANGED notOnce
    \/ (\E g \in Goroutines : OnceUnlock(g)) /\ UNCHANGED notOnce
    \/ (\E g \in Goroutines : ReadDepth(g)) /\ UNCHANGED notOnce
    \/ (\E g \in Goroutines : ReadPackageName(g)) /\ UNCHANGED notOnce

SpecOnce == InitAll /\ [][NextOnce]_vars

----------------------------------------------------------------------------
(* The properties *)

AllCtx == 1..Len(ctxs)

\* C1: chain isolation.  Looking up context_id through any context produced so
\* far returns the id that context was bound with when it was derived, whatever
\* contexts were derived afterwards, and a request that carries no data map keeps
\* carrying none.
C1_ChainIsolation ==
    /\ \A c \in AllCtx : getContextData(maps, ctxs, c).contextId = boundId[c]
    /\ \A r \in 1..Len(reqs) :
          reqs[r] = Background => ~getContextData(maps, ctxs, reqs[r]).ok

\* C8: the context builders build a fresh map.  The map a derived context carries
\* is not one the caller holds, SetContextDataAndSetValue leaves the map it was
\* given as it was, and what a derived context carries stays what it was given.
C8_FreshMap ==
    /\ \A c \in AllCtx : ctxs[c].data \notin held
    /\ (op.name = "Set" /\ op.data # Nil) => maps[op.data] = pre[op.data]
    /\ \A c \in AllCtx : DataOf(maps, ctxs, c) = boundMap[c]

\* C10: shadowing by AppendContextDataAndSetValue.  An emit with a context derived
\* by AppendContextDataAndSetValue gets context_id = id as its only context field,
\* and right after the call an emit with the parent context gets every entry of
\* the parent's map, as before the call.
C10_AppendShadows ==
    /\ \A c \in AllCtx :
          builtBy[c] = "Append" =>
              injectContextDataMap(EmptyMap, CtxValue(maps, ctxs, c))
                  = (ContextIdKey :> Str(boundId[c]))
    /\ op.name = "Append" =>
          LET p == reqs[op.req]
              now == injectContextDataMap(EmptyMap, CtxValue(maps, ctxs, p))
          IN /\ now = injectContextDataMap(EmptyMap, CtxValue(pre, ctxs, p))
             /\ p # Background =>
                   \A k \in DOMAIN boundMap[p] : k \in DOMAIN now

\* a request that carries a map with an extra entry, attached by
\* SetContextDataAndSetValue, was passed to AppendContextDataAndSetValue
C10_Witness ==
    /\ op.name = "Append"
    /\ reqs[op.req] # Background
    /\ builtBy[reqs[op.req]] = "Set"
    /\ ExtraKey \in DOMAIN DataOf(maps, ctxs, reqs[op.req])
    /\ DOMAIN DataOf(maps, ctxs, op.ctx) = {ContextIdKey}

\* the byte chunks written so far, concatenated in call order
RECURSIVE Written(_)
Written(cs) ==
    IF cs = <<>> THEN <<>>
    ELSE LET c == Head(cs) IN
         (IF c[1] = "Write" THEN c[2] ELSE <<>>) \o Written(Tail(cs))

\* C2: pass-through.  The wrapped writer has received exactly the calls made on
\* the wrapper, in order, with the same codes and bytes, and Write returned what
\* the wrapped writer returned.
C2_PassThrough ==
    /\ sink = calls
    /\ ret = sinkRet

\* a status, then a chunk whose write the wrapped writer cut short with an error
C2_Witness ==
    /\ Len(calls) >= 2
    /\ calls[1][1] = "WriteHeader"
    /\ calls[2][1] = "Write"
    /\ Len(calls[2][2]) > 0
    /\ ret.err
    /\ ret.n < Len(calls[2][2])

\* C3: the captured response body.  Once something was written, the recorded
\* Body, and the value LogResponse puts under the response key, is the
\* concatenation of all chunks written.
C3_BodyIsConcatenation ==
    (\E i \in 1..Len(calls) : calls[i][1] = "Write") =>
        /\ rw.Body = Written(calls)
        /\ injectResponseBody(EmptyMap, rw)[ResponseKey] = Str(Written(calls))

WarnOps == {"Warn", "Warnf"}
ErrorFatalOps == {"Error", "Errorf", "Fatal", "Fatalf"}
InfoDebugOps == {"Info", "Infof", "Debug", "Debugf", "InfoMap", "LogRequest", "LogResponse"}
EmitCtx == IF emit.ctx.ok THEN emit.ctx.data ELSE EmptyMap

\* the last emit called the resolver and attached func and file from its frame
Attributed ==
    /\ emit.called
    /\ emit.caller.found =>
          /\ emit.callerFields["func"] = Str(emit.caller.frame.Function)
          /\ emit.callerFields["file"] =
                Str(SprintFileLine(emit.caller.frame.File, emit.caller.frame.Line))

\* the last emit did not call the resolver, and a func or file field of its
\* record comes from the context or the call
NotAttributed ==
    /\ ~emit.called
    /\ emit.callerFields = EmptyMap
    /\ \A k \in {"func", "file"} \cap DOMAIN fields :
          k \in DOMAIN EmitCtx \cup DOMAIN emit.specific

C5_MergePrecedence ==
    emit.name # "none" =>
        /\ DOMAIN fields =
              DOMAIN emit.specific \cup DOMAIN EmitCtx \cup DOMAIN emit.callerFields
        /\ \A k \in DOMAIN fields :
              fields[k] = IF k \in DOMAIN emit.specific THEN emit.specific[k]
                          ELSE IF k \in DOMAIN EmitCtx THEN Str(EmitCtx[k])
                          ELSE emit.callerFields[k]

\* InfoMap with a key that both the context and the dataMap hold, with
\* different values
C5_Witness ==
    /\ emit.name = "InfoMap"
    /\ \E k \in DOMAIN EmitCtx \cap DOMAIN emit.specific :
          /\ Str(EmitCtx[k]) # emit.specific[k]
          /\ fields[k] = emit.specific[k]

\* the frames runtime.Callers hands to the walk
Captured == Callers(stk, knownLogFrames, maximumCallerDepth)
Outside == {i \in 1..Len(Captured) : Captured[i].Pkg # LogPkg}

\* C6: caller resolution.  getCaller looks at no more than maximumCallerDepth
\* frames and returns the first of them that is outside the logging package,
\* never a frame of the logging package, and nil when none of them is outside.
C6_FirstOutsideFrame ==
    res.done =>
        /\ Len(Captured) <= maximumCallerDepth
        /\ res.found => res.frame.Pkg # LogPkg
        /\ IF Outside = {} THEN ~res.found
           ELSE /\ res.found
                /\ res.frame = Captured[CHOOSE i \in Outside : \A j \in Outside : i <= j]

Walking == {"callers", "walk"}

\* C7: one-time initialisation.  The discovery block is entered at most once,
\* and a goroutine that starts its walk finds the block completed: it reads the
\* initialised depth and package name.
C7_InitOnce ==
    /\ initRuns <= 1
    /\ \A g \in Goroutines :
          /\ pc[g] \in Walking \cup {"done"} =>
                /\ initRuns = 1
                /\ onceDone
                /\ thisPackageName = LogPkg
                /\ minimumCallerDepth = knownLogFrames
          /\ pc[g] \in {"walk", "done"} => seenDepth[g] = knownLogFrames
          /\ pc[g] = "done" => seenPkg[g] = LogPkg

\* one goroutine has returned from getCaller while another, which found the
\* initialisation not done when it entered, holds the mutex
C7_Witness ==
    \E g, h \in Goroutines :
        /\ g # h
        /\ pc[g] = "done"
        /\ pc[h] = "check"
        /\ onceMu = h

\* C9 as stated: after LogRequest the handler reads the bytes, and meets the
\* end or the read error, that the body would have given it without LogRequest.
C9_SameStream ==
    (logged /\ outcome # "none") =>
        /\ obs = ReadAll(orig).buf
        /\ outcome = IF orig.fails THEN "error" ELSE "EOF"

\* C9, amended: after LogRequest the handler reads the bytes LogRequest could
\* read from the body and then a clean end, also when the original body would
\* have ended in a read error; LogRequest has handed its record, with the text
\* of those bytes, to the logger.
C9_ReadableCopy ==
    (logged /\ outcome # "none") =>
        /\ obs = ReadAll(orig).buf
        /\ outcome = "EOF"
        /\ emit.name = "LogRequest"
        /\ fields[RequestKey] = Str(Sprintq(NewBuffer(ReadAll(orig).buf)))

\* a body that fails part-way was logged and then read to its end by the handler
C9_Witness ==
    /\ logged
    /\ orig.fails
    /\ outcome = "EOF"
    /\ Len(obs) > 0
    /\ emit.written

====
